---- MODULE Spec2Model ----
(***************************************************************************)
(* gather-context (src/main.py): the file-selection and aggregation        *)
(* pipeline of gather_context().  One scan is modelled: the os.walk        *)
(* traversal with directory pruning, the per-file decisions of the loop    *)
(* body, the statistics counters and the formatting of the result.         *)
(*                                                                         *)
(* Strings that the code matches character by character (paths, glob       *)
(* patterns) are sequences of one-character strings.  File contents are    *)
(* run-length encoded: a sequence of runs [c |-> code point, n |-> count]. *)
(***************************************************************************)
EXTENDS Integers, Sequences, FiniteSets, TLC

\* ---------------------------------------------------------------- bounds
\* largest --max-files argument tried
MaxFilesArg == 2
\* largest --max-size argument (KB) tried
MaxSizeArg == 1

\* ------------------------------------------------------ program constants
\* max_size_bytes = max_size * 1024
KB == 1024

DEFAULT_EXTENSIONS ==
  << <<"*",".","p","y">>, <<"*",".","j","s">>, <<"*",".","j","s","x">>, <<"*",".","t","s">>, <<"*",".","t","s","x">>,
     <<"*",".","h","t","m","l">>, <<"*",".","c","s","s">>, <<"*",".","s","c","s","s">>, <<"*",".","s","a","s","s">>,
     <<"*",".","j","a","v","a">>, <<"*",".","c">>, <<"*",".","c","p","p">>, <<"*",".","h">>, <<"*",".","h","p","p">>,
     <<"*",".","g","o">>, <<"*",".","r","s">>, <<"*",".","r","b">>, <<"*",".","p","h","p">>, <<"*",".","s","w","i","f","t">> >>

DEFAULT_EXCLUDES ==
  << <<"*","*","/","n","o","d","e","_","m","o","d","u","l","e","s","/","*","*">>, <<"*","*","/","v","e","n","v","/","*","*">>, <<"*","*","/",".","g","i","t","/","*","*">>,
     <<"*","*","/","b","u","i","l","d","/","*","*">>, <<"*","*","/","d","i","s","t","/","*","*">>, <<"*","*","/","_","_","p","y","c","a","c","h","e","_","_","/","*","*">>,
     <<"*","*","/",".","e","n","v">>, <<"*","*","/","e","n","v","/","*","*">>, <<"*","*","/",".","v","s","c","o","d","e","/","*","*">>, <<"*","*","/",".","i","d","e","a","/","*","*">>,
     <<"*","*","/","v","e","n","d","o","r","/","*","*">>, <<"*","*","/","b","i","n","/","*","*">>, <<"*","*","/","o","b","j","/","*","*">>,
     <<"*","*","/","*",".","m","i","n",".","j","s">>, <<"*","*","/","*",".","m","i","n",".","c","s","s">>, <<"*","*","/","p","a","c","k","a","g","e","-","l","o","c","k",".","j","s","o","n">>,
     <<"*","*","/","y","a","r","n",".","l","o","c","k">>, <<"*","*","/","P","i","p","f","i","l","e",".","l","o","c","k">>, <<"*","*","/","p","o","e","t","r","y",".","l","o","c","k">> >>

\* ---------------------------------------------------------- pure helpers
\* fnmatch.fnmatch(name, pat) on POSIX: the whole name must match; "*" is
\* any run of characters ("/" included), "?" is any one character, every
\* other character is literal.  (No pattern used below has a "[".)
\* glob(name, pat, i, j): name from position i on matches pat from j on.
RECURSIVE glob(_, _, _, _)
glob(name, pat, i, j) ==
  IF j > Len(pat) THEN i > Len(name)
  ELSE IF pat[j] = "*"
       THEN IF j = Len(pat) THEN TRUE
            ELSE IF pat[j + 1] = "*" THEN glob(name, pat, i, j + 1)
            ELSE \E k \in i..(Len(name) + 1) : glob(name, pat, k, j + 1)
  ELSE IF i > Len(name) THEN FALSE
  ELSE IF pat[j] = "?" THEN glob(name, pat, i + 1, j + 1)
  ELSE name[i] = pat[j] /\ glob(name, pat, i + 1, j + 1)

fnmatch(name, pat) == glob(name, pat, 1, 1)

is_excluded(path, exclude_patterns) ==
  \E i \in 1..Len(exclude_patterns) : fnmatch(path, exclude_patterns[i])

is_included(path, include_patterns) ==
  \E i \in 1..Len(include_patterns) : fnmatch(path, include_patterns[i])

\* Path(root) / name
PathJoin(root, name) == root \o <<"/">> \o name

\* file_path.relative_to(base): the remainder of file_path below base when
\* base is a leading run of whole components of it; otherwise ValueError,
\* which line 134 turns into the unchanged file_path.
IsBelow(path, base) ==
  /\ Len(path) > Len(base) + 1
  /\ SubSeq(path, 1, Len(base)) = base
  /\ path[Len(base) + 1] = "/"

rel_path_of(file_path, base) ==
  IF IsBelow(file_path, base)
  THEN SubSeq(file_path, Len(base) + 2, Len(file_path))
  ELSE file_path

\* str.isspace() of one code point (the ASCII and Latin-1 white space)
IsSpace(c) == c \in (9..13) \cup (28..32) \cup {133, 160}

\* content.strip(): the content without its leading and trailing white space
RECURSIVE LStrip(_)
LStrip(content) ==
  IF content = <<>> THEN <<>>
  ELSE IF IsSpace(Head(content).c) THEN LStrip(Tail(content))
  ELSE content

RECURSIVE RStrip(_)
RStrip(content) ==
  IF content = <<>> THEN <<>>
  ELSE IF IsSpace(content[Len(content)].c)
       THEN RStrip(SubSeq(content, 1, Len(content) - 1))
  ELSE content

\* variant of strip: only the empty string counts as empty
strip_none(content) == content

strip(content) == RStrip(LStrip(content))

\* number of bytes of one code point in UTF-8
Utf8Width(c) == IF c < 128 THEN 1 ELSE IF c < 2048 THEN 2 ELSE IF c < 65536 THEN 3 ELSE 4

\* len(content.encode('utf-8'))
RECURSIVE encoded_len(_)
encoded_len(content) ==
  IF content = <<>> THEN 0
  ELSE Head(content).n * Utf8Width(Head(content).c) + encoded_len(Tail(content))

\* an int-or-None argument, and a number that may be float('inf')
None == [none |-> TRUE, v |-> 0]
Some(n) == [none |-> FALSE, v |-> n]
Inf == [inf |-> TRUE, v |-> 0]
Fin(n) == [inf |-> FALSE, v |-> n]

\* "x or float('inf')": None and 0 are both falsy
or_inf(x) == IF x.none \/ x.v = 0 THEN Inf ELSE Fin(x.v)

\* "x or default" for a list argument: None and [] (both <<>> here) are falsy
or_list(x, default) == IF x = <<>> THEN default ELSE x

\* a * 1024, a >= b and a + b > c where b or c may be float('inf')
times_kb(x) == IF x.inf THEN Inf ELSE Fin(x.v * KB)
ge_num(a, b) == (~b.inf) /\ a >= b.v
gt_num(a, b) == (~b.inf) /\ a > b.v

\* ------------------------------------------------------------ file system
\* What os.walk reports for each directory: sub-directories and files in
\* the order the OS lists them (not sorted).
Listing ==
  ( <<"/","r">>       :> [dirs |-> << <<"b","i","n">>, <<"s">> >>, files |-> << <<"b",".","p","y">>, <<"a",".","p","y">>, <<"b",".","m","i","n",".","j","s">> >>] ) @@
  ( <<"/","r","/","b","i","n">>   :> [dirs |-> << <<"t">> >>,          files |-> << <<"l",".","j","s">>, <<"e",".","p","y">> >>] ) @@
  ( <<"/","r","/","b","i","n","/","t">> :> [dirs |-> << >>,                files |-> << <<"c",".","p","y">> >>] ) @@
  ( <<"/","r","/","s">>     :> [dirs |-> << <<".","e","n","v">> >>,       files |-> << <<"c",".","p","y">>, <<"n",".","t","x","t">> >>] ) @@
  ( <<"/","r","/","s","/",".","e","n","v">> :> [dirs |-> << >>,               files |-> << <<"v",".","p","y">> >>] )

AllDirs == DOMAIN Listing

AllFiles ==
  UNION { { PathJoin(d, Listing[d].files[i]) : i \in 1..Len(Listing[d].files) } : d \in AllDirs }

\* what open(file_path).read() does: raise err, or return content
Text(content) == [err |-> "", content |-> content]
Raises(e) == [err |-> e, content |-> <<>>]

Empty  == Text(<< >>)
Blank  == Text(<< [c |-> 32, n |-> 2], [c |-> 10, n |-> 1] >>)
Small  == Text(<< [c |-> 120, n |-> 8] >>)
Padded == Text(<< [c |-> 32, n |-> 1], [c |-> 120, n |-> 1022], [c |-> 10, n |-> 1] >>)
Wide   == Text(<< [c |-> 233, n |-> 513] >>)
Binary == Raises("UnicodeDecodeError")
Denied == Raises("IOError")

\* the disks tried: three files vary, the others hold a little text
Disks ==
  { [f \in AllFiles |->
        IF f = <<"/","r","/","b",".","p","y">> THEN kb
        ELSE IF f = <<"/","r","/","a",".","p","y">> THEN ka
        ELSE IF f \in { <<"/","r","/","s","/","c",".","p","y">>, <<"/","r","/","b","i","n","/","t","/","c",".","p","y">> } THEN kc
        ELSE Small] :
      kb \in {Small, Padded, Binary},
      ka \in {Wide, Empty, Denied},
      kc \in {Small, Blank} }

\* os.getcwd()
Cwd == <<"/","r">>

\* the arguments tried; <<>> stands for an absent (None) string or list
ArgSets ==
  [ directory   : { << >>, <<"/","r","/","b","i","n">> },
    extensions  : { << >>, << <<"*",".","t","x","t">>, <<"*",".","j","s">> >> },
    excludes    : { << >>, << <<"*","/","s">> >> },
    max_size    : { None } \cup { Some(n) : n \in 0..MaxSizeArg },
    max_files   : { None } \cup { Some(n) : n \in 0..MaxFilesArg },
    relative_to : { << >>, <<"/","r","/","s">> } ]

\* ------------------------------------------------------------------ state
VARIABLES
  args,               \* the arguments of gather_context
  disk,               \* file path -> what reading it does
  stack,              \* os.walk: directories still to be listed, next first
  root,               \* os.walk: the directory being listed
  files,              \* the files of root not yet visited by the inner loop
  collected,          \* list of (rel_path, content)
  stats,              \* the statistics counters
  formatted_content,  \* the returned text, <<>> until the scan is formatted
  pc,                 \* "walk" during the traversal, "done" after return
  visited             \* history: one entry per file the inner loop visited

vars == << args, disk, stack, root, files, collected, stats, formatted_content, pc, visited >>

\* lines 69-81: the defaults and the derived limits
directory_path   == IF args.directory = <<>> THEN Cwd ELSE args.directory
extensions       == or_list(args.extensions, DEFAULT_EXTENSIONS)
excludes         == or_list(args.excludes, DEFAULT_EXCLUDES)
max_size         == or_inf(args.max_size)
max_files        == or_inf(args.max_files)
relative_to_path == IF args.relative_to = <<>> THEN directory_path ELSE args.relative_to
max_size_bytes   == times_kb(max_size)

Init ==
  /\ args \in ArgSets
  /\ disk \in Disks
  /\ stack = << directory_path >>
  /\ root = << >>
  /\ files = << >>
  /\ collected = << >>
  /\ stats = [ total_files |-> 0, included_files |-> 0, excluded_files |-> 0,
               empty_files |-> 0, total_size_bytes |-> 0,
               skipped_size_limit |-> 0, skipped_file_limit |-> 0 ]
  /\ formatted_content = << >>
  /\ pc = "walk"
  /\ visited = << >>

\* ------------------------------------------------------------ the walk
\* dirs[:] = [d for d in dirs if not is_excluded(Path(root) / d, excludes)]
kept_dirs(top) ==
  SelectSeq(Listing[top].dirs, LAMBDA d : ~is_excluded(PathJoin(top, d), excludes))

\* one iteration of "for root, dirs, files in os.walk(...)": list the next
\* directory, prune its sub-directories, queue the kept ones in order
os_walk_next ==
  /\ pc = "walk" /\ files = << >> /\ stack # << >>
  /\ LET top == Head(stack)
         kept == kept_dirs(top)
     IN /\ root' = top
        /\ files' = Listing[top].files
        /\ stack' = [i \in 1..Len(kept) |-> PathJoin(top, kept[i])] \o Tail(stack)
  /\ UNCHANGED << args, disk, collected, stats, formatted_content, pc, visited >>

\* ------------------------------------------------------- the inner loop
file_path == PathJoin(root, Head(files))

\* variant of passes_patterns: the exclude test on files is forgotten
passes_patterns_no_exclude(path) == is_included(path, extensions)

\* line 103, negated: the file goes on to the budget checks
passes_patterns(path) == ~is_excluded(path, excludes) /\ is_included(path, extensions)

\* variant of file_limit_reached: ">" for ">="
file_limit_reached_gt == gt_num(stats.included_files, max_files)

\* line 110
file_limit_reached == ge_num(stats.included_files, max_files)

\* line 127
over_size_budget(file_size) == gt_num(stats.total_size_bytes + file_size, max_size_bytes)

Visit(outcome, opened) ==
  /\ visited' = Append(visited, [path |-> file_path, outcome |-> outcome, opened |-> opened])
  /\ files' = Tail(files)
  /\ UNCHANGED << args, disk, stack, root, formatted_content, pc >>

InLoop == pc = "walk" /\ files # << >>

\* Each action below is one path through the loop body; its guard is the
\* conjunction of the conditions the code tests on that path.

\* lines 103-105
ExcludedByPattern ==
  /\ InLoop
  /\ ~passes_patterns(file_path)
  /\ stats' = [stats EXCEPT !.excluded_files = @ + 1]
  /\ UNCHANGED collected
  /\ Visit("pattern", FALSE)

\* lines 107-112
SkipFileLimit ==
  /\ InLoop
  /\ file_limit_reached
  /\ passes_patterns(file_path)
  /\ stats' = [stats EXCEPT !.total_files = @ + 1, !.skipped_file_limit = @ + 1]
  /\ UNCHANGED collected
  /\ Visit("file_limit", FALSE)

\* variant of ReadError: the exception is not caught and ends the scan
ReadError_raise ==
  /\ InLoop
  /\ ~file_limit_reached
  /\ disk[file_path].err \in {"UnicodeDecodeError", "IOError"}
  /\ passes_patterns(file_path)
  /\ pc' = "raised"
  /\ stats' = [stats EXCEPT !.total_files = @ + 1]
  /\ UNCHANGED << args, disk, stack, root, files, collected, formatted_content, visited >>

\* variant of ReadError: total_files is counted only after a successful read
ReadError_uncounted ==
  /\ InLoop
  /\ ~file_limit_reached
  /\ disk[file_path].err \in {"UnicodeDecodeError", "IOError"}
  /\ passes_patterns(file_path)
  /\ stats' = [stats EXCEPT !.excluded_files = @ + 1]
  /\ UNCHANGED collected
  /\ Visit("read_error", TRUE)

\* lines 107, 115-117, 142-145: open/read raises UnicodeDecodeError or IOError
ReadError ==
  /\ InLoop
  /\ ~file_limit_reached
  /\ disk[file_path].err \in {"UnicodeDecodeError", "IOError"}
  /\ passes_patterns(file_path)
  /\ stats' = [stats EXCEPT !.total_files = @ + 1, !.excluded_files = @ + 1]
  /\ UNCHANGED collected
  /\ Visit("read_error", TRUE)

\* lines 107, 115-122
SkipEmpty ==
  /\ InLoop
  /\ ~file_limit_reached
  /\ disk[file_path].err = ""
  /\ strip(disk[file_path].content) = << >>
  /\ passes_patterns(file_path)
  /\ stats' = [stats EXCEPT !.total_files = @ + 1, !.empty_files = @ + 1]
  /\ UNCHANGED collected
  /\ Visit("empty", TRUE)

\* variant of SkipSizeLimit: the first file over the budget ends the walk
SkipSizeLimit_break ==
  /\ InLoop
  /\ ~file_limit_reached
  /\ disk[file_path].err = ""
  /\ strip(disk[file_path].content) # << >>
  /\ over_size_budget(encoded_len(disk[file_path].content))
  /\ passes_patterns(file_path)
  /\ stats' = [stats EXCEPT !.total_files = @ + 1, !.skipped_size_limit = @ + 1]
  /\ visited' = Append(visited, [path |-> file_path, outcome |-> "size_limit", opened |-> TRUE])
  /\ files' = << >>
  /\ stack' = << >>
  /\ UNCHANGED << args, disk, root, collected, formatted_content, pc >>

\* lines 107, 115-129
SkipSizeLimit ==
  /\ InLoop
  /\ ~file_limit_reached
  /\ disk[file_path].err = ""
  /\ strip(disk[file_path].content) # << >>
  /\ over_size_budget(encoded_len(disk[file_path].content))
  /\ passes_patterns(file_path)
  /\ stats' = [stats EXCEPT !.total_files = @ + 1, !.skipped_size_limit = @ + 1]
  /\ UNCHANGED collected
  /\ Visit("size_limit", TRUE)

\* lines 107, 115-140
Collect ==
  /\ InLoop
  /\ ~file_limit_reached
  /\ disk[file_path].err = ""
  /\ passes_patterns(file_path)
  /\ LET content == disk[file_path].content
         file_size == encoded_len(content)
     IN /\ strip(content) # << >>
        /\ ~over_size_budget(file_size)
        /\ collected' = Append(collected,
                               [rel_path |-> rel_path_of(file_path, relative_to_path),
                                content |-> content])
        /\ stats' = [stats EXCEPT !.total_files = @ + 1, !.included_files = @ + 1,
                                  !.total_size_bytes = @ + file_size]
  /\ Visit("included", TRUE)

\* ------------------------------------------------------------ formatting
\* the returned text as a sequence of pieces: fixed text, a path, an
\* integer in decimal, or a file's content
Lit(s)      == [kind |-> s,         path |-> << >>, num |-> 0, text |-> << >>]
PathPiece(p) == [kind |-> "path",   path |-> p,     num |-> 0, text |-> << >>]
NumPiece(n) == [kind |-> "int",     path |-> << >>, num |-> n, text |-> << >>]
TextPiece(t) == [kind |-> "content", path |-> << >>, num |-> 0, text |-> t]

\* f"\n\n--- {path} ---\n\n{content}"
format_file_content(path, content) ==
  << Lit("\n\n--- "), PathPiece(path), Lit(" ---\n\n"), TextPiece(content) >>

\* lines 149-151: formatted_content += format_file_content(...) for each pair
RECURSIVE format_all(_)
format_all(pairs) ==
  IF pairs = << >> THEN << >>
  ELSE format_file_content(Head(pairs).rel_path, Head(pairs).content) \o format_all(Tail(pairs))

\* variant of header: the count printed is total_files
header_total ==
  << Lit("Code context gathered from "), PathPiece(directory_path),
     Lit("\nTotal files: "), NumPiece(stats.total_files) >>

\* lines 154-157
header ==
  << Lit("Code context gathered from "), PathPiece(directory_path),
     Lit("\nTotal files: "), NumPiece(stats.included_files) >>

\* lines 147-162: the walk is over; format and return
FormatOutput ==
  /\ pc = "walk" /\ files = << >> /\ stack = << >>
  /\ formatted_content' =
       IF collected # << >>
       THEN header \o format_all(collected)
       ELSE << Lit("No code files found in "), PathPiece(directory_path) >>
  /\ pc' = "done"
  /\ UNCHANGED << args, disk, stack, root, files, collected, stats, visited >>

Next ==
  \/ os_walk_next
  \/ ExcludedByPattern
  \/ SkipFileLimit
  \/ ReadError
  \/ SkipEmpty
  \/ SkipSizeLimit
  \/ Collect
  \/ FormatOutput

Spec == Init /\ [][Next]_vars

\* one thread of control runs the scan to its return
FairSpec == Spec /\ WF_vars(Next)

\* ============================================================ properties
\* helpers that describe the scanned tree independently of the loop

\* every element of the sequence satisfies... : content made of white space only
AllSpace(content) == \A i \in 1..Len(content) : IsSpace(content[i].c)

\* the pattern without a trailing "/" followed by stars, or <<>> if it has none
RECURSIVE DropStars(_)
DropStars(p) ==
  IF p # << >> /\ p[Len(p)] = "*" THEN DropStars(SubSeq(p, 1, Len(p) - 1)) ELSE p

ContentsPatternDir(p) ==
  LET q == DropStars(p)
  IN IF Len(q) < Len(p) /\ q # << >> /\ q[Len(q)] = "/"
     THEN SubSeq(q, 1, Len(q) - 1)
     ELSE << >>

\* a directory targeted by an exclude pattern: the pattern matches the
\* directory itself, or it is "<dir pattern>/**" and <dir pattern> matches
DirTargeted(d) ==
  \E i \in 1..Len(excludes) :
     \/ fnmatch(d, excludes[i])
     \/ /\ ContentsPatternDir(excludes[i]) # << >>
        /\ fnmatch(d, ContentsPatternDir(excludes[i]))

\* the sub-directories of the scanned tree that are excluded
ExcludedDirs == { d \in AllDirs : IsBelow(d, directory_path) /\ DirTargeted(d) }

UnderExcludedDir(f) == \E d \in ExcludedDirs : IsBelow(f, d)

IncludedVisits == SelectSeq(visited, LAMBDA e : e.outcome = "included")

\* the effective count limit of line 110 is reached
LimitReached == (~max_files.inf) /\ stats.included_files >= max_files.v

\* C1: no file under an excluded sub-directory of the scanned tree is ever
\* collected, even when its path matches an include pattern.
C1_NoFileUnderExcludedDir ==
  /\ Len(collected) = Len(IncludedVisits)
  /\ \A i \in 1..Len(visited) :
        visited[i].outcome = "included" => ~UnderExcludedDir(visited[i].path)

\* C1 witness: a finished scan that collected something from a tree holding
\* a file that matches an include pattern under an excluded directory.
C1_Witness ==
  /\ pc = "done"
  /\ collected # << >>
  /\ \E f \in AllFiles : UnderExcludedDir(f) /\ is_included(f, extensions)
                          /\ \E i \in 1..Len(visited) : visited[i].path = f

\* C2 as claimed: with max_files = f given, f >= 0 (0 included),
\* included_files <= f in every state of the scan.
C2_IncludedWithinMaxFiles ==
  (~args.max_files.none) => stats.included_files <= args.max_files.v

\* C3 as claimed: with max_size = s KB given, s >= 0 (0 included), the scan
\* ends with total_size_bytes <= s*1024, and with s = 0 nothing is collected
\* and every non-empty eligible file read is counted in skipped_size_limit.
C3_SizeWithinMaxSize ==
  (pc = "done" /\ ~args.max_size.none) =>
     /\ stats.total_size_bytes <= args.max_size.v * KB
     /\ (args.max_size.v = 0 => collected = << >>)

\* C5 as claimed: every excluded sub-directory is pruned before the walk
\* descends into it, so no file beneath one is ever visited by the loop
\* (and none of them is counted, in excluded_files or anywhere else).
C5_ExcludedDirsNeverVisited ==
  \A i \in 1..Len(visited) : ~UnderExcludedDir(visited[i].path)

\* the file the loop is looking at is eligible by pattern, can be read and
\* holds nothing but white space
AtBlankFile ==
  /\ pc = "walk" /\ files # << >>
  /\ disk[file_path].err = ""
  /\ AllSpace(disk[file_path].content)
  /\ passes_patterns(file_path)

CountedEmpty ==
  /\ stats' = [stats EXCEPT !.total_files = @ + 1, !.empty_files = @ + 1]
  /\ collected' = collected

NoBlankCollected ==
  \A i \in 1..Len(collected) : ~AllSpace(collected[i].content)

\* C4 as claimed: a pattern-eligible file with empty or white-space-only
\* content increments empty_files and neither excluded_files nor
\* included_files, and is never collected, wherever it falls in the walk
\* order, also after the count budget has been reached.
C4_BlankAlwaysCountedEmpty ==
  [][AtBlankFile => CountedEmpty]_vars

\* C4 amended: the same for a pattern-eligible file that is visited while
\* included_files < max_files (so it is read); no collected content is
\* empty or white space only.
C4_BlankCountedEmptyWhenRead ==
  /\ [](NoBlankCollected)
  /\ [][(AtBlankFile /\ ~LimitReached) => CountedEmpty]_vars

\* C4 witness: a white-space-only file was read and counted after another
\* file had been collected.
C4_Witness ==
  /\ stats.empty_files >= 1
  /\ stats.included_files >= 1
  /\ \E i \in 1..Len(visited) :
        /\ visited[i].outcome = "empty"
        /\ disk[visited[i].path].content # << >>

C7_FormattedFromCollected ==
  pc = "done" =>
    LET n == Len(collected) IN
    IF n = 0
    THEN formatted_content = << Lit("No code files found in "), PathPiece(directory_path) >>
    ELSE /\ Len(formatted_content) = 4 + 4 * n
         /\ formatted_content[1] = Lit("Code context gathered from ")
         /\ formatted_content[2] = PathPiece(directory_path)
         /\ formatted_content[3] = Lit("\nTotal files: ")
         /\ formatted_content[4] = NumPiece(n)
         /\ Len(IncludedVisits) = n
         /\ \A i \in 1..n :
               /\ formatted_content[4 * i + 1] = Lit("\n\n--- ")
               /\ formatted_content[4 * i + 2] = PathPiece(collected[i].rel_path)
               /\ formatted_content[4 * i + 3] = Lit(" ---\n\n")
               /\ formatted_content[4 * i + 4] = TextPiece(collected[i].content)
               /\ collected[i].rel_path =
                     rel_path_of(IncludedVisits[i].path, relative_to_path)
               /\ collected[i].content = disk[IncludedVisits[i].path].content

\* C7 witness: a formatted result of two or more files whose order is the
\* walk order and not the sorted one (b.py before a.py), with a file that
\* was eligible but not collected.
C7_Witness ==
  /\ pc = "done"
  /\ Len(collected) >= 2
  /\ collected[1].rel_path = <<"b",".","p","y">>
  /\ collected[2].rel_path = <<"a",".","p","y">>
  /\ stats.total_files > stats.included_files

\* C7 second case reached: nothing collected
C7_WitnessEmpty == pc = "done" /\ collected = << >> /\ stats.total_files > 0

\* the file the loop is looking at would be collected: eligible, under the
\* count limit, readable, not blank, and within the remaining byte budget
AtFittingFile ==
  /\ pc = "walk" /\ files # << >>
  /\ ~LimitReached
  /\ disk[file_path].err = ""
  /\ ~AllSpace(disk[file_path].content)
  /\ (max_size_bytes.inf \/
        stats.total_size_bytes + encoded_len(disk[file_path].content) <= max_size_bytes.v)
  /\ passes_patterns(file_path)

\* C8: a size-budget skip leaves total_size_bytes and the collected list as
\* they were and the walk goes on with the next file; a later file that is
\* eligible, readable, not empty and fits the remaining budget is collected.
C8_SizeSkipDoesNotEndWalk ==
  /\ [][stats'.skipped_size_limit # stats.skipped_size_limit =>
          /\ stats' = [stats EXCEPT !.skipped_size_limit = @ + 1, !.total_files = @ + 1]
          /\ collected' = collected
          /\ files' = Tail(files) /\ stack' = stack /\ pc' = "walk"]_vars
  /\ [][(stats.skipped_size_limit > 0 /\ AtFittingFile) =>
          /\ collected' = Append(collected,
                                 [rel_path |-> rel_path_of(file_path, relative_to_path),
                                  content |-> disk[file_path].content])
          /\ stats'.included_files = stats.included_files + 1
          /\ stats'.total_size_bytes =
                stats.total_size_bytes + encoded_len(disk[file_path].content)]_vars

\* C8 witness: a file was skipped for size and a later one was collected.
C8_Witness ==
  \E i \in 1..Len(visited), j \in 1..Len(visited) :
     i < j /\ visited[i].outcome = "size_limit" /\ visited[j].outcome = "included"

\* the files os.walk yields from the directories on the stack, in order
RECURSIVE walk_order(_)
walk_order(st) ==
  IF st = << >> THEN << >>
  ELSE LET top == Head(st)
           kept == kept_dirs(top)
       IN [i \in 1..Len(Listing[top].files) |-> PathJoin(top, Listing[top].files[i])]
          \o walk_order([i \in 1..Len(kept) |-> PathJoin(top, kept[i])] \o Tail(st))

\* the file the loop is looking at is eligible, under the limit, and
\* reading it raises
AtFailingFile ==
  /\ pc = "walk" /\ files # << >>
  /\ ~LimitReached
  /\ disk[file_path].err # ""
  /\ passes_patterns(file_path)

\* C9: a read or decode failure adds one to excluded_files (the file is
\* already in total_files), changes nothing else, and the walk goes on: the
\* scan ends having visited every file of the walk, and it always ends.
C9_ReadFailureDoesNotAbort ==
  /\ [][AtFailingFile =>
          /\ stats' = [stats EXCEPT !.excluded_files = @ + 1, !.total_files = @ + 1]
          /\ collected' = collected
          /\ files' = Tail(files) /\ stack' = stack /\ pc' = "walk"]_vars
  /\ [](pc = "done" =>
          [i \in 1..Len(visited) |-> visited[i].path] = walk_order(<< directory_path >>))
  /\ <>(pc = "done")

\* C9 witness: a finished scan in which a read failed and a later file was
\* collected.
C9_Witness ==
  /\ pc = "done"
  /\ \E i \in 1..Len(visited), j \in 1..Len(visited) :
        i < j /\ visited[i].outcome = "read_error" /\ visited[j].outcome = "included"

\* files visited so far that the patterns rejected, and reads that failed
PatternRejected ==
  Cardinality({ i \in 1..Len(visited) : ~passes_patterns(visited[i].path) })
ReadFailures ==
  Cardinality({ i \in 1..Len(visited) : visited[i].opened /\ disk[visited[i].path].err # "" })

\* C10: between two files, total_files is the sum of included, empty,
\* size-skipped, count-skipped and failed-to-read files, and excluded_files
\* is the pattern-rejected files plus the failed reads.
C10_Accounting ==
  /\ stats.total_files = stats.included_files + stats.empty_files
                         + stats.skipped_size_limit + stats.skipped_file_limit + ReadFailures
  /\ stats.excluded_files = PatternRejected + ReadFailures
  /\ stats.total_files + PatternRejected = Len(visited)

\* C10 witness: a finished scan with a pattern-rejected file, a failed read
\* and a collected file.
C10_Witness ==
  /\ pc = "done"
  /\ PatternRejected >= 1
  /\ ReadFailures >= 1
  /\ stats.included_files >= 1
  /\ stats.skipped_file_limit >= 1

====
